---------------------------- MODULE Spec2Model ----------------------------
(***************************************************************************)
(* Tree Genius: the path-to-tree builder, the renderer and the generation  *)
(* controller of src/src/App.jsx and of its second variant                 *)
(* src/unnamed/part_000.                                                   *)
(*                                                                         *)
(* Strings are TLA+ strings.  The non-ASCII glyphs of the source are       *)
(* written as bracketed ASCII names, one name per glyph:                   *)
(*   {T} U+251C   {L} U+2514   {-} U+2500   {I} U+2502                     *)
(*   {folder} U+1F4C1   {file} U+1F4C4   {warn} U+26A0 U+FE0F              *)
(*   {bq} the ASCII backquote U+0060 (SANY does not lex it in a string)    *)
(* and the two Chinese/English stop markers as {stopped-manually} and      *)
(* {user-stopped}.                                                         *)
(***************************************************************************)
EXTENDS Integers, Sequences, FiniteSets, TLC

-----------------------------------------------------------------------------
(* Bounds of the model *)

\* Longest file list handed to one pass.
MaxFiles == 3
\* Largest maxDepth a configuration carries (the slider allows 1..15).
MaxDepthBound == 3
\* Passes started in one behaviour of the controller specification.
MaxPasses == 3
\* buildTreeAsync yields before every entry i with i % CHUNK_SIZE = 0; the
\* source uses 2000 (App.jsx) and 1500 (part_000), scaled down here so that
\* a list of MaxFiles entries crosses a batch boundary.
CHUNK_SIZE == 2
\* renderNodes yields before every entry i with i % 500 = 0 of a directory's
\* sorted entries; scaled down likewise.
RENDER_CHUNK == 2

-----------------------------------------------------------------------------
(* Strings *)

\* s.split('/')
RECURSIVE SplitAcc(_, _, _, _)
SplitAcc(s, i, cur, acc) ==
    IF i > Len(s) THEN Append(acc, cur)
    ELSE IF SubSeq(s, i, i) = "/"
         THEN SplitAcc(s, i + 1, "", Append(acc, cur))
         ELSE SplitAcc(s, i + 1, cur \o SubSeq(s, i, i), acc)

Split(s) == SplitAcc(s, 1, "", <<>>)

\* parts.slice(1)
Slice1(parts) == IF Len(parts) <= 1 THEN <<>> ELSE SubSeq(parts, 2, Len(parts))

\* '  '.repeat(n)
RECURSIVE Repeat(_, _)
Repeat(s, n) == IF n <= 0 THEN "" ELSE s \o Repeat(s, n - 1)

\* The collation order of String.prototype.localeCompare on the printable
\* ASCII characters, as ICU's root collation (the one en-US uses) orders them:
\* the tab, line feed, form feed and carriage return, the space, punctuation,
\* symbols, the dollar sign, digits, then letters;
\* letters compare without case first, and lower case before upper case on a
\* tie.  The backquote, which sorts between % and ^, cannot be written in a
\* string here and is left out.  Names are taken over this alphabet and the
\* capital letters; other locales tailor the order (da: aa after z), so the
\* order below is the one of a runtime whose default locale uses the root
\* collation.
CollationOrder ==
    "\t\n\f\r _-,;:!?.'\"()[]{}@*/\\&#%^+<=>|~$0123456789abcdefghijklmnopqrstuvwxyz"
UpperCase == "ABCDEFGHIJKLMNOPQRSTUVWXYZ"
LowerCase == "abcdefghijklmnopqrstuvwxyz"

\* The characters of a string, as one-character strings.
CharsOf(s) == {SubSeq(s, i, i) : i \in 1..Len(s)}

UpperChars == CharsOf(UpperCase)

LowerOf ==
    [c \in UpperChars |->
        LET i == CHOOSE k \in 1..Len(UpperCase) : SubSeq(UpperCase, k, k) = c
        IN SubSeq(LowerCase, i, i)]

WeightOf ==
    [c \in CharsOf(CollationOrder) |->
        CHOOSE k \in 1..Len(CollationOrder) : SubSeq(CollationOrder, k, k) = c]

IsUpper(c) == c \in UpperChars

ToLower(c) == IF IsUpper(c) THEN LowerOf[c] ELSE c

\* The primary weight of a character of the alphabet (no value outside it).
PrimaryWeight(c) == WeightOf[ToLower(c)]

\* First level: the primary weights, character by character; a proper prefix
\* sorts first.
RECURSIVE ComparePrimary(_, _, _)
ComparePrimary(a, b, i) ==
    IF i > Len(a) /\ i > Len(b) THEN 0
    ELSE IF i > Len(a) THEN -1
    ELSE IF i > Len(b) THEN 1
    ELSE LET wa == PrimaryWeight(SubSeq(a, i, i))
             wb == PrimaryWeight(SubSeq(b, i, i))
         IN IF wa < wb THEN -1
            ELSE IF wa > wb THEN 1
            ELSE ComparePrimary(a, b, i + 1)

\* Tie-break level: at the first difference in case, lower case sorts first.
RECURSIVE CompareCase(_, _, _)
CompareCase(a, b, i) ==
    IF i > Len(a) \/ i > Len(b) THEN 0
    ELSE LET ua == IsUpper(SubSeq(a, i, i))
             ub == IsUpper(SubSeq(b, i, i))
         IN IF ~ua /\ ub THEN -1
            ELSE IF ua /\ ~ub THEN 1
            ELSE CompareCase(a, b, i + 1)

\* a.localeCompare(b)
localeCompare(a, b) ==
    LET p == ComparePrimary(a, b, 1)
    IN IF p # 0 THEN p ELSE CompareCase(a, b, 1)

\* 1024^i
RECURSIVE Pow1024(_)
Pow1024(i) == IF i = 0 THEN 1 ELSE 1024 * Pow1024(i - 1)

\* Math.floor(Math.log(bytes) / Math.log(1024)) for bytes >= 1: the number of
\* times bytes can be divided by 1024 before it falls below 1024.
RECURSIVE Log1024(_)
Log1024(bytes) == IF bytes < 1024 THEN 0 ELSE 1 + Log1024(bytes \div 1024)

sizes == <<"B", "KB", "MB", "GB">>

\* formatSize: bytes / 1024^i with two decimals (toFixed rounds half up),
\* trailing zeros dropped by parseFloat, then the unit; sizes[i] is undefined
\* from 1024^4 on.  The hundredths are computed from the quotient and the
\* remainder of the division, so that no intermediate value is larger than
\* bytes: with r = rh * m + rl and k = 1024 * m,
\*   floor((200 * r + k) / (2 * k)) = floor((200 * rh + 1024 + floor(200 * rl / m)) / 2048).
formatSize(bytes) ==
    IF bytes = 0 THEN "0 B"
    ELSE LET i == Log1024(bytes)
             k == Pow1024(i)
             q == bytes \div k
             r == bytes % k
             m == IF i = 0 THEN 1 ELSE Pow1024(i - 1)
             fracHundredths ==
                 IF i = 0 THEN 0
                 ELSE (200 * (r \div m) + 1024 + (200 * (r % m)) \div m) \div 2048
             hundredths == 100 * q + fracHundredths
             whole == hundredths \div 100
             frac == hundredths % 100
             num == IF frac = 0 THEN ToString(whole)
                    ELSE IF frac % 10 = 0
                         THEN ToString(whole) \o "." \o ToString(frac \div 10)
                         ELSE ToString(whole) \o "."
                              \o (IF frac < 10 THEN "0" ELSE "") \o ToString(frac)
         IN num \o " " \o (IF i + 1 \in DOMAIN sizes THEN sizes[i + 1]
                            ELSE "undefined")

-----------------------------------------------------------------------------
(* Constants of the source *)

Variants == {"App", "part_000"}

DEFAULT_IGNORES ==
    <<"node_modules", ".git", ".idea", ".vscode", "dist",
      "build", "coverage", "__pycache__", ".DS_Store">>

Styles == {"classic", "indent", "ascii", "minimal", "emoji", "json"}

classicStyle == [branch |-> "{T}{-}{-} ", lastBranch |-> "{L}{-}{-} ",
                 vertical |-> "{I}   ", space |-> "    ",
                 folderIcon |-> "", fileIcon |-> ""]

\* Mutant: the indent entry of App.jsx without the placeholder spaces of its
\* continuation strings.
TreeStylesIndentUnfixed(v) ==
    [classic |-> classicStyle,
     ascii   |-> [branch |-> "|-- ", lastBranch |-> "{bq}-- ",
                  vertical |-> "|   ", space |-> "    ",
                  folderIcon |-> "", fileIcon |-> ""],
     minimal |-> [branch |-> "+ ", lastBranch |-> "+ ",
                  vertical |-> "  ", space |-> "  ",
                  folderIcon |-> "", fileIcon |-> ""],
     indent  |-> IF v = "App"
                 THEN [branch |-> "  ", lastBranch |-> "  ",
                       vertical |-> "", space |-> "",
                       folderIcon |-> "", fileIcon |-> ""]
                 ELSE [branch |-> "", lastBranch |-> "",
                       vertical |-> "", space |-> "",
                       folderIcon |-> "", fileIcon |-> ""],
     emoji   |-> [branch |-> "{T}{-}{-} ", lastBranch |-> "{L}{-}{-} ",
                  vertical |-> "{I}   ", space |-> "    ",
                  folderIcon |-> "{folder} ", fileIcon |-> "{file} "]]

\* TREE_STYLES of the given variant; the two differ in the indent entry.
TREE_STYLES(v) ==
    [classic |-> classicStyle,
     ascii   |-> [branch |-> "|-- ", lastBranch |-> "{bq}-- ",
                  vertical |-> "|   ", space |-> "    ",
                  folderIcon |-> "", fileIcon |-> ""],
     minimal |-> [branch |-> "+ ", lastBranch |-> "+ ",
                  vertical |-> "  ", space |-> "  ",
                  folderIcon |-> "", fileIcon |-> ""],
     indent  |-> IF v = "App"
                 THEN [branch |-> "  ", lastBranch |-> "  ",
                       vertical |-> "  ", space |-> "  ",
                       folderIcon |-> "", fileIcon |-> ""]
                 ELSE [branch |-> "", lastBranch |-> "",
                       vertical |-> "", space |-> "",
                       folderIcon |-> "", fileIcon |-> ""],
     emoji   |-> [branch |-> "{T}{-}{-} ", lastBranch |-> "{L}{-}{-} ",
                  vertical |-> "{I}   ", space |-> "    ",
                  folderIcon |-> "{folder} ", fileIcon |-> "{file} "]]

\* The property names an object literal {} inherits from Object.prototype:
\* a lookup of one of them is truthy although nothing was ever stored.
ObjectPrototypeKeys ==
    {"constructor", "toString", "toLocaleString", "valueOf", "hasOwnProperty",
     "isPrototypeOf", "propertyIsEnumerable", "__proto__", "__defineGetter__",
     "__defineSetter__", "__lookupGetter__", "__lookupSetter__"}

\* What the template literals print for the fields of a value that has none
\* of them: TREE_STYLES[cfg.style] is truthy for a name inherited from
\* Object.prototype, and each field read from it is undefined.
inheritedStyle ==
    [branch |-> "undefined", lastBranch |-> "undefined",
     vertical |-> "undefined", space |-> "undefined",
     folderIcon |-> "undefined", fileIcon |-> "undefined"]

\* TREE_STYLES[cfg.style] || TREE_STYLES.classic
StyleOf(v, style) ==
    IF style \in DOMAIN TREE_STYLES(v) THEN TREE_STYLES(v)[style]
    ELSE IF style \in ObjectPrototypeKeys THEN inheritedStyle
    ELSE classicStyle

\* The message of the TypeError raised by currentLevel[part] when currentLevel
\* is undefined (V8's wording).
TypeErrorMessage(part) ==
    "Cannot read properties of undefined (reading '" \o part \o "')"

-----------------------------------------------------------------------------
(* TreeBuilder: the loop body of buildTreeAsync *)

\* A level is the sequence of the own entries of one object, in the order
\* Object.entries and JSON.stringify enumerate them: the names that are
\* array indices first, in ascending numeric order, then the other names in
\* the order of their creation.
emptyTree == <<>>
emptyStats == [dirs |-> 0, files |-> 0, totalSize |-> 0]

fileNode(size) == [_type |-> "file", size |-> size]
dirNode(children) == [_type |-> "dir", _children |-> children]

Digits == "0123456789"

DigitValue(c) == CHOOSE d \in 0..9 : SubSeq(Digits, d + 1, d + 1) = c

IsDigits(s) == s # "" /\ \A i \in 1..Len(s) : SubSeq(s, i, i) \in CharsOf(Digits)

\* a < b for two digit strings without leading zeros, compared as numbers.
RECURSIVE DigitsLess(_, _, _)
DigitsLess(a, b, i) ==
    IF i > Len(a) THEN FALSE
    ELSE LET da == DigitValue(SubSeq(a, i, i))
             db == DigitValue(SubSeq(b, i, i))
         IN IF da # db THEN da < db ELSE DigitsLess(a, b, i + 1)

NumericLess(a, b) ==
    Len(a) < Len(b) \/ (Len(a) = Len(b) /\ DigitsLess(a, b, 1))

\* 2^32 - 2, the largest array index.
MaxArrayIndex == "4294967294"

\* The name is an array index: the canonical decimal form of an integer of
\* 0 .. 2^32 - 2.
IsArrayIndex(s) ==
    /\ IsDigits(s)
    /\ (s = "0" \/ SubSeq(s, 1, 1) # "0")
    /\ ~NumericLess(MaxArrayIndex, s)

\* currentLevel[part] = node for a name the object does not own yet: the place
\* the new entry takes in the enumeration order.
AddOwnProperty(level, e) ==
    IF IsArrayIndex(e.name)
    THEN LET n == Cardinality({k \in 1..Len(level) :
                                  /\ IsArrayIndex(level[k].name)
                                  /\ NumericLess(level[k].name, e.name)})
         IN SubSeq(level, 1, n) \o <<e>> \o SubSeq(level, n + 1, Len(level))
    ELSE Append(level, e)

\* Index of the own entry named part, 0 when there is none.
IndexOf(level, part) ==
    IF \E k \in 1..Len(level) : level[k].name = part
    THEN CHOOSE k \in 1..Len(level) : level[k].name = part
    ELSE 0

\* currentLevel[part] is truthy: an own node, or an inherited property.
Present(level, part) == IndexOf(level, part) # 0 \/ part \in ObjectPrototypeKeys

\* Mutant: only the last segment (the file name) is tested against the list.
IsIgnoredLastOnly(relevantParts, ignores) ==
    /\ relevantParts # <<>>
    /\ \E j \in 1..Len(ignores) : ignores[j] = relevantParts[Len(relevantParts)]

\* relevantParts.some(part => cfg.ignores.includes(part))
IsIgnored(relevantParts, ignores) ==
    \E i \in 1..Len(relevantParts) : \E j \in 1..Len(ignores) :
        ignores[j] = relevantParts[i]

\* What creating a file node adds to the counters.
NewFileCount(size) == [dirs |-> 0, files |-> 1, totalSize |-> size]
\* What creating a directory node adds to the counters.
NewDirCount == [dirs |-> 1, files |-> 0, totalSize |-> 0]

AddStats(a, b) == [dirs |-> a.dirs + b.dirs, files |-> a.files + b.files,
                   totalSize |-> a.totalSize + b.totalSize]

\* Mutant: stats.dirs++ on every traversal of a directory, not on creation.
RECURSIVE InsertPartsPerTraversal(_, _, _, _)
InsertPartsPerTraversal(level, parts, idx, size) ==
    LET part == parts[idx]
        isFile == idx = Len(parts)
        k == IndexOf(level, part)
    IN IF ~Present(level, part)
       THEN IF isFile
            THEN [level |-> AddOwnProperty(level, [name |-> part,
                                                   node |-> fileNode(size)]),
                  added |-> NewFileCount(size), err |-> ""]
            ELSE LET sub == InsertPartsPerTraversal(emptyTree, parts, idx + 1, size)
                 IN [level |-> AddOwnProperty(level, [name |-> part,
                                                      node |-> dirNode(sub.level)]),
                     added |-> AddStats(NewDirCount, sub.added), err |-> sub.err]
       ELSE IF isFile
            THEN [level |-> level, added |-> emptyStats, err |-> ""]
            ELSE IF k # 0 /\ level[k].node._type = "dir"
                 THEN LET sub == InsertPartsPerTraversal(level[k].node._children,
                                                         parts, idx + 1, size)
                      IN [level |-> [level EXCEPT ![k].node._children = sub.level],
                          added |-> AddStats(NewDirCount, sub.added), err |-> sub.err]
                 ELSE [level |-> level, added |-> emptyStats,
                       err |-> TypeErrorMessage(parts[idx + 1])]

\* relevantParts.forEach from index idx on, with currentLevel = level.
\* Returns the level afterwards, the counter increments, and the message of
\* the TypeError thrown ("" when none is).
RECURSIVE InsertParts(_, _, _, _)
InsertParts(level, parts, idx, size) ==
    LET part == parts[idx]
        isFile == idx = Len(parts)
        k == IndexOf(level, part)
    IN IF ~Present(level, part)
       THEN IF isFile
            THEN [level |-> AddOwnProperty(level, [name |-> part,
                                                   node |-> fileNode(size)]),
                  added |-> NewFileCount(size), err |-> ""]
            ELSE LET sub == InsertParts(emptyTree, parts, idx + 1, size)
                 IN [level |-> AddOwnProperty(level, [name |-> part,
                                                      node |-> dirNode(sub.level)]),
                     added |-> AddStats(NewDirCount, sub.added), err |-> sub.err]
       ELSE IF isFile
            THEN [level |-> level, added |-> emptyStats, err |-> ""]
            ELSE IF k # 0 /\ level[k].node._type = "dir"
                 THEN LET sub == InsertParts(level[k].node._children, parts,
                                             idx + 1, size)
                      IN [level |-> [level EXCEPT ![k].node._children = sub.level],
                          added |-> sub.added, err |-> sub.err]
                 \* currentLevel[part]._children is undefined (a file node, or
                 \* an inherited property): the next segment's lookup throws.
                 ELSE [level |-> level, added |-> emptyStats,
                       err |-> TypeErrorMessage(parts[idx + 1])]

\* file.webkitRelativePath || file.name
PathOf(file) ==
    IF file.webkitRelativePath # "" THEN file.webkitRelativePath ELSE file.name

\* Mutant: a path of one segment is kept whole instead of being emptied.
RelevantPartsKeepingRoot(file) ==
    IF Len(Split(PathOf(file))) = 1 THEN Split(PathOf(file))
    ELSE Slice1(Split(PathOf(file)))

RelevantParts(file) == Slice1(Split(PathOf(file)))

\* Mutant: files hidden from the display are left out of the statistics.
InsertEntryCountingShown(b, file, cfg) ==
    LET relevantParts == Slice1(Split(IF file.webkitRelativePath # ""
                                      THEN file.webkitRelativePath ELSE file.name))
    IN IF IsIgnored(relevantParts, cfg.ignores) THEN b
       ELSE IF relevantParts = <<>> THEN b
       ELSE LET r == InsertParts(b.tree, relevantParts, 1, file.size)
                s == AddStats(b.stats, r.added)
            IN [tree |-> r.level,
                stats |-> IF cfg.showFiles THEN s
                          ELSE [s EXCEPT !.files = b.stats.files,
                                         !.totalSize = b.stats.totalSize],
                err |-> r.err]

\* One iteration of the for loop of buildTreeAsync on builder state
\* b = [tree, stats, err].
InsertEntry(b, file, cfg) ==
    LET relevantParts == RelevantParts(file)
    IN IF IsIgnored(relevantParts, cfg.ignores) THEN b
       ELSE IF relevantParts = <<>> THEN b
       ELSE LET r == InsertParts(b.tree, relevantParts, 1, file.size)
            IN [tree |-> r.level, stats |-> AddStats(b.stats, r.added),
                err |-> r.err]

emptyBuild == [tree |-> emptyTree, stats |-> emptyStats, err |-> ""]

\* Entries from (0-based) index i up to, not including, index n; stops at the
\* first entry that throws.
RECURSIVE InsertRange(_, _, _, _, _)
InsertRange(b, files, i, n, cfg) ==
    IF i >= n \/ b.err # "" THEN b
    ELSE InsertRange(InsertEntry(b, files[i + 1], cfg), files, i + 1, n, cfg)

\* The whole loop.
BuildAll(files, cfg) == InsertRange(emptyBuild, files, 0, Len(files), cfg)

-----------------------------------------------------------------------------
(* TreeRenderer *)

\* Mutant: the comparator looks at the names only.
compareEntriesByName(a, b) == localeCompare(a.name, b.name)

\* The comparator of the sort in renderNodes.
compareEntries(a, b) ==
    LET aIsDir == a.node._type = "dir"
        bIsDir == b.node._type = "dir"
    IN IF aIsDir /\ ~bIsDir THEN -1
       ELSE IF ~aIsDir /\ bIsDir THEN 1
       ELSE localeCompare(a.name, b.name)

\* Object.entries(nodes).sort(comparator): a stable sort.
RECURSIVE InsertSorted(_, _)
InsertSorted(sorted, e) ==
    IF sorted = <<>> THEN <<e>>
    ELSE IF compareEntries(e, Head(sorted)) < 0 THEN <<e>> \o sorted
    ELSE <<Head(sorted)>> \o InsertSorted(Tail(sorted), e)

RECURSIVE SortEntries(_)
SortEntries(level) ==
    IF level = <<>> THEN <<>>
    ELSE InsertSorted(SortEntries(SubSeq(level, 1, Len(level) - 1)),
                      level[Len(level)])

\* Mutant: the trailing slash is given to files as well.
LineTextSlashOnAll(v, cfg, prefix, depth, name, node, isLast) ==
    LET style == StyleOf(v, cfg.style)
        isDir == node._type = "dir"
        connector == IF isLast THEN style.lastBranch ELSE style.branch
        linePrefix == IF v = "part_000" /\ cfg.style = "indent"
                      THEN Repeat("  ", depth + 1)
                      ELSE prefix \o connector
        icon == IF cfg.style = "emoji"
                THEN (IF isDir THEN style.folderIcon ELSE style.fileIcon)
                ELSE ""
        withSlash == IF cfg.trailingSlash THEN name \o "/" ELSE name
        lineContent == IF cfg.showSizes /\ ~isDir
                       THEN withSlash \o " (" \o formatSize(node.size) \o ")"
                       ELSE withSlash
    IN linePrefix \o icon \o lineContent \o "\n"

\* The text of one line.  path, isDir and depth of the line item are
\* bookkeeping of which node the line was emitted for.
LineText(v, cfg, prefix, depth, name, node, isLast) ==
    LET style == StyleOf(v, cfg.style)
        isDir == node._type = "dir"
        connector == IF isLast THEN style.lastBranch ELSE style.branch
        linePrefix == IF v = "part_000" /\ cfg.style = "indent"
                      THEN Repeat("  ", depth + 1)
                      ELSE prefix \o connector
        icon == IF cfg.style = "emoji"
                THEN (IF isDir THEN style.folderIcon ELSE style.fileIcon)
                ELSE ""
        withSlash == IF isDir /\ cfg.trailingSlash THEN name \o "/" ELSE name
        lineContent == IF cfg.showSizes /\ ~isDir
                       THEN withSlash \o " (" \o formatSize(node.size) \o ")"
                       ELSE withSlash
    IN linePrefix \o icon \o lineContent \o "\n"

\* Mutant: the continuation strings of the last and the other children are
\* exchanged.
NextPrefixSwapped(v, cfg, prefix, isLast) ==
    LET style == StyleOf(v, cfg.style)
    IN IF v = "part_000" /\ cfg.style = "indent" THEN prefix
       ELSE prefix \o (IF isLast THEN style.vertical ELSE style.space)

NextPrefix(v, cfg, prefix, isLast) ==
    LET style == StyleOf(v, cfg.style)
    IN IF v = "part_000" /\ cfg.style = "indent" THEN prefix
       ELSE prefix \o (IF isLast THEN style.space ELSE style.vertical)

\* renderNodes as the sequence of what it does, in order: "check" (the test
\* of signal.aborted on entry), "yield" (the setTimeout(0) await), "line"
\* (one line appended to the output).
RECURSIVE renderNodes(_, _, _, _, _, _)
RECURSIVE renderLoop(_, _, _, _, _, _, _)
\* Mutant: the depth test lets one more level through.
renderNodesOneDeeper(nodes, prefix, depth, cfg, v, path) ==
    IF depth > cfg.maxDepth THEN <<>>
    ELSE <<[kind |-> "check"]>>
         \o renderLoop(SortEntries(nodes), 0, prefix, depth, cfg, v, path)

renderNodes(nodes, prefix, depth, cfg, v, path) ==
    IF depth >= cfg.maxDepth THEN <<>>
    ELSE <<[kind |-> "check"]>>
         \o renderLoop(SortEntries(nodes), 0, prefix, depth, cfg, v, path)

\* Mutant: with files hidden, a directory that holds no directory is left
\* out as well.
renderLoopPruning(entries, i, prefix, depth, cfg, v, path) ==
    IF i >= Len(entries) THEN <<>>
    ELSE LET name == entries[i + 1].name
             data == entries[i + 1].node
             isLast == i = Len(entries) - 1
             isDir == data._type = "dir"
             yield == IF i % RENDER_CHUNK = 0 THEN <<[kind |-> "yield"]>> ELSE <<>>
             line == [kind |-> "line",
                      text |-> LineText(v, cfg, prefix, depth, name, data, isLast),
                      path |-> Append(path, name), isDir |-> isDir,
                      depth |-> depth, isLast |-> isLast]
             hidden == \/ ~isDir
                       \/ \A k \in 1..Len(data._children) :
                              data._children[k].node._type = "file"
             body == IF ~cfg.showFiles /\ hidden THEN <<>>
                     ELSE <<line>>
                          \o (IF isDir
                              THEN renderNodes(data._children,
                                               NextPrefix(v, cfg, prefix, isLast),
                                               depth + 1, cfg, v, Append(path, name))
                              ELSE <<>>)
         IN yield \o body \o renderLoop(entries, i + 1, prefix, depth, cfg, v, path)

renderLoop(entries, i, prefix, depth, cfg, v, path) ==
    IF i >= Len(entries) THEN <<>>
    ELSE LET name == entries[i + 1].name
             data == entries[i + 1].node
             isLast == i = Len(entries) - 1
             isDir == data._type = "dir"
             yield == IF i % RENDER_CHUNK = 0 THEN <<[kind |-> "yield"]>> ELSE <<>>
             line == [kind |-> "line",
                      text |-> LineText(v, cfg, prefix, depth, name, data, isLast),
                      path |-> Append(path, name), isDir |-> isDir,
                      depth |-> depth, isLast |-> isLast]
             body == IF ~cfg.showFiles /\ ~isDir THEN <<>>
                     ELSE <<line>>
                          \o (IF isDir
                              THEN renderNodes(data._children,
                                               NextPrefix(v, cfg, prefix, isLast),
                                               depth + 1, cfg, v, Append(path, name))
                              ELSE <<>>)
         IN yield \o body \o renderLoop(entries, i + 1, prefix, depth, cfg, v, path)

\* The quoted form JSON.stringify gives a property name: the quotation mark
\* and the backslash are escaped with a backslash, and the tab, line feed,
\* form feed and carriage return are written as backslash and a letter.
RECURSIVE JsonEscape(_, _)
JsonEscape(s, i) ==
    IF i > Len(s) THEN ""
    ELSE LET c == SubSeq(s, i, i)
         IN (IF c = "\"" \/ c = "\\" THEN "\\" \o c
             ELSE IF c = "\t" THEN "\\t"
             ELSE IF c = "\n" THEN "\\n"
             ELSE IF c = "\f" THEN "\\f"
             ELSE IF c = "\r" THEN "\\r"
             ELSE c) \o JsonEscape(s, i + 1)

JsonQuote(s) == "\"" \o JsonEscape(s, 1) \o "\""

\* JSON.stringify(tree, null, 2)
RECURSIVE JsonLevel(_, _)
RECURSIVE JsonMembers(_, _, _)
JsonNode(node, ind) ==
    IF node._type = "file"
    THEN "{\n" \o ind \o "  \"_type\": \"file\",\n"
         \o ind \o "  \"size\": " \o ToString(node.size) \o "\n" \o ind \o "}"
    ELSE "{\n" \o ind \o "  \"_type\": \"dir\",\n"
         \o ind \o "  \"_children\": " \o JsonLevel(node._children, ind \o "  ")
         \o "\n" \o ind \o "}"

JsonMembers(level, k, ind) ==
    IF k > Len(level) THEN ""
    ELSE ind \o JsonQuote(level[k].name) \o ": " \o JsonNode(level[k].node, ind)
         \o (IF k < Len(level) THEN ",\n" ELSE "\n")
         \o JsonMembers(level, k + 1, ind)

JsonLevel(level, ind) ==
    IF level = <<>> THEN "{}"
    ELSE "{\n" \o JsonMembers(level, 1, ind \o "  ") \o ind \o "}"

\* Mutant: no root line for a hierarchy in which nothing was counted.
RootLineUnlessEmpty(cfg, root, stats) ==
    IF stats.dirs + stats.files = 0 THEN ""
    ELSE (IF cfg.trailingSlash THEN root \o "/" ELSE root)
         \o (IF cfg.showSizes THEN " (" \o formatSize(stats.totalSize) \o ")" ELSE "")
         \o "\n"

\* The first line of the text styles.
RootLine(cfg, root, stats) ==
    (IF cfg.trailingSlash THEN root \o "/" ELSE root)
    \o (IF cfg.showSizes THEN " (" \o formatSize(stats.totalSize) \o ")" ELSE "")
    \o "\n"

\* The texts of the line items of a trace, concatenated.
RECURSIVE LinesText(_)
LinesText(trace) ==
    IF trace = <<>> THEN ""
    ELSE (IF Head(trace).kind = "line" THEN Head(trace).text ELSE "")
         \o LinesText(Tail(trace))

\* The line items of a trace.
LinesOf(trace) == SelectSeq(trace, LAMBDA it : it.kind = "line")

\* buildTreeAsync run to its end without cancellation: the returned
\* { treeString, statistics }, or the error thrown.
buildTreeAsync(files, cfg, root, v) ==
    LET b == BuildAll(files, cfg)
    IN IF b.err # "" THEN [ok |-> FALSE, err |-> b.err]
       ELSE [ok |-> TRUE,
             treeString |->
                 IF cfg.style = "json" THEN JsonLevel(b.tree, "")
                 ELSE RootLine(cfg, root, b.stats)
                      \o LinesText(renderNodes(b.tree, "", 0, cfg, v, <<>>)),
             statistics |-> b.stats]

-----------------------------------------------------------------------------
(* GenerationController: the state of the App component *)

VARIABLES
    variant,             \* which of the two source files runs
    fileList,            \* useState([]): the selected File objects
    rootName,            \* useState('project-root')
    config,              \* useState(...): the configuration
    generatedTree,       \* useState(''): the displayed text
    stats,               \* useState({dirs, files, totalSize}): displayed statistics
    isGenerating,        \* useState(false)
    abortControllerRef,  \* useRef(null): 0 for null, else the pass whose controller it holds
    aborted,             \* aborted[p]: signal.aborted of the controller of pass p
    pass,                \* pass[p]: the invocation of generate started p-th
    nPasses,             \* passes started so far
    savedConfig,         \* localStorage item of the configuration: <<>> when absent
    reloadPending        \* window.location.reload() was called, the page is not replaced yet

vars == <<variant, fileList, rootName, config, generatedTree, stats,
          isGenerating, abortControllerRef, aborted, pass, nPasses,
          savedConfig, reloadPending>>

\* What a handler that neither writes the configuration nor reloads the page
\* leaves alone.
page == <<savedConfig, reloadPending>>

Passes == 1..MaxPasses

\* The configuration used when localStorage holds none.
DefaultConfig ==
    [maxDepth |-> 10, style |-> "classic", ignores |-> DEFAULT_IGNORES,
     showFiles |-> TRUE, showSizes |-> FALSE, trailingSlash |-> FALSE]

File(path, size) ==
    [webkitRelativePath |-> path,
     name |-> LET parts == Split(path) IN parts[Len(parts)],
     size |-> size]

\* A File object that carries no relative path (a loose file).
LooseFile(name, size) == [webkitRelativePath |-> "", name |-> name, size |-> size]

\* An invocation of generate that has not started.
IdlePass ==
    [pc |-> "idle", files |-> <<>>, cfg |-> DefaultConfig, root |-> "",
     i |-> 0, b |-> emptyBuild, pos |-> 0, out |-> "", outcome |-> ""]

\* The text appended by stopGeneration.
StopMarker(v) ==
    IF v = "App" THEN "\n\n[{stopped-manually}]"
    ELSE "\n\n>>> {warn} {user-stopped} <<<"

-----------------------------------------------------------------------------
(* One run of a suspended renderer, from trace position pos + 1 to the next
   yield, to the throw of 'Aborted', or to the end. *)

RECURSIVE RunTrace(_, _, _, _)
RunTrace(trace, pos, out, isAborted) ==
    IF pos > Len(trace) THEN [status |-> "end", pos |-> pos, out |-> out]
    ELSE LET it == trace[pos]
         IN IF it.kind = "yield" THEN [status |-> "yield", pos |-> pos, out |-> out]
            ELSE IF it.kind = "check"
                 THEN IF isAborted
                      THEN [status |-> "throw", pos |-> pos, out |-> out]
                      ELSE RunTrace(trace, pos + 1, out, isAborted)
            ELSE RunTrace(trace, pos + 1, out \o it.text, isAborted)

TraceOf(pr, v) == renderNodes(pr.b.tree, "", 0, pr.cfg, v, <<>>)

\* The index at which the build loop next yields, or Len(files) when the
\* loop ends first: the entries i .. NextStop(i, n) - 1 run without a yield.
NextStop(i, n) ==
    LET j == (i \div CHUNK_SIZE + 1) * CHUNK_SIZE
    IN IF j < n THEN j ELSE n

\* Mutant: the result is published without looking at the signal.
MayPublishAlways(isAborted) == TRUE

\* if (!signal.aborted) { setGeneratedTree(treeString); setStats(statistics) }
MayPublish(isAborted) == ~isAborted

-----------------------------------------------------------------------------
(* Initial state *)

TypeOK ==
    /\ variant \in Variants
    /\ isGenerating \in BOOLEAN
    /\ abortControllerRef \in 0..MaxPasses
    /\ nPasses \in 0..MaxPasses
    /\ aborted \in [Passes -> BOOLEAN]
    /\ reloadPending \in BOOLEAN
    /\ Len(savedConfig) <= 1

InitWith(configs) ==
    /\ variant \in Variants
    /\ fileList = <<>>
    /\ rootName = "project-root"
    /\ config \in configs
    /\ generatedTree = ""
    /\ stats = emptyStats
    /\ isGenerating = FALSE
    /\ abortControllerRef = 0
    /\ aborted = [p \in Passes |-> FALSE]
    /\ pass = [p \in Passes |-> IdlePass]
    /\ nPasses = 0
    /\ savedConfig = <<config>>
    /\ reloadPending = FALSE

-----------------------------------------------------------------------------
(* Actions *)

\* Mutant: a new pass does not abort the controller of the pass before it.
StartPassWithoutAbort(files, cfg, root) ==
    LET p == nPasses + 1
    IN /\ nPasses < MaxPasses
       /\ nPasses' = p
       /\ abortControllerRef' = p
       /\ isGenerating' = TRUE
       /\ generatedTree' = IF variant = "part_000" THEN "" ELSE generatedTree
       /\ pass' = [pass EXCEPT ![p] =
                     [IdlePass EXCEPT !.pc = "delay", !.files = files,
                                      !.cfg = cfg, !.root = root]]
       /\ UNCHANGED <<variant, stats, aborted>>

\* Mutant: the counters of a new pass go on from those of the pass before
\* it, as if the accumulator were shared between passes.
StartPassSharingStats(files, cfg, root) ==
    LET p == nPasses + 1
        carried == IF nPasses = 0 THEN emptyStats ELSE pass[nPasses].b.stats
    IN /\ nPasses < MaxPasses
       /\ nPasses' = p
       /\ aborted' = IF abortControllerRef # 0
                     THEN [aborted EXCEPT ![abortControllerRef] = TRUE]
                     ELSE aborted
       /\ abortControllerRef' = p
       /\ isGenerating' = TRUE
       /\ generatedTree' = IF variant = "part_000" THEN "" ELSE generatedTree
       /\ pass' = [pass EXCEPT ![p] =
                     [IdlePass EXCEPT !.pc = "delay", !.files = files,
                                      !.cfg = cfg, !.root = root,
                                      !.b = [emptyBuild EXCEPT !.stats = carried]]]
       /\ UNCHANGED <<variant, stats>>

\* The synchronous head of generate / generateTreeProcess, run by the effect
\* for the inputs (files, cfg, root); in App.jsx the effect's cleanup has
\* aborted the same controller just before.
StartPass(files, cfg, root) ==
    LET p == nPasses + 1
    IN /\ nPasses < MaxPasses
       /\ nPasses' = p
       /\ aborted' = IF abortControllerRef # 0
                     THEN [aborted EXCEPT ![abortControllerRef] = TRUE]
                     ELSE aborted
       /\ abortControllerRef' = p
       /\ isGenerating' = TRUE
       /\ generatedTree' = IF variant = "part_000" THEN "" ELSE generatedTree
       /\ pass' = [pass EXCEPT ![p] =
                     [IdlePass EXCEPT !.pc = "delay", !.files = files,
                                      !.cfg = cfg, !.root = root]]
       /\ UNCHANGED <<variant, stats>>

\* handleFolderSelect, then the effect on [fileList, config, rootName].
handleFolderSelect(files) ==
    /\ files # <<>>
    /\ LET firstPath == files[1].webkitRelativePath
           root == IF firstPath # "" THEN Split(firstPath)[1] ELSE rootName
       IN /\ fileList' = files
          /\ rootName' = root
          /\ StartPass(files, config, root)
    /\ UNCHANGED <<config, page>>

\* setConfig (a style button, the depth slider, a toggle, the ignore list),
\* then the two effects on config: the one that saves it, and the one that
\* generates, which returns at once while no folder is selected.
setConfig(c) ==
    /\ config' = c
    /\ savedConfig' = <<c>>
    /\ UNCHANGED reloadPending
    /\ IF fileList = <<>>
       THEN UNCHANGED <<variant, generatedTree, stats, isGenerating,
                        abortControllerRef, aborted, pass, nPasses>>
       ELSE StartPass(fileList, c, rootName)
    /\ UNCHANGED <<fileList, rootName>>

\* resetConfig with the confirmation accepted.  App.jsx sets the default
\* configuration and removes the saved one, and the saving effect stores the
\* default again after the render.  part_000 removes the saved configuration
\* and asks for a reload of the page: nothing of the component's state
\* changes, and passes, timers and controls go on until the page is replaced.
resetConfig ==
    IF variant = "App" THEN setConfig(DefaultConfig)
    ELSE /\ savedConfig' = <<>>
         /\ reloadPending' = TRUE
         /\ UNCHANGED <<variant, fileList, rootName, config, generatedTree, stats,
                         isGenerating, abortControllerRef, aborted, pass, nPasses>>

\* The reload takes place: the old page goes with the timers of every pass,
\* and the component mounts again with its initial state, the configuration
\* read from localStorage (the default when there is none), which the saving
\* effect then stores.
pageLoad ==
    /\ reloadPending
    /\ fileList' = <<>>
    /\ rootName' = "project-root"
    /\ config' = IF savedConfig = <<>> THEN DefaultConfig ELSE savedConfig[1]
    /\ savedConfig' = <<config'>>
    /\ reloadPending' = FALSE
    /\ generatedTree' = ""
    /\ stats' = emptyStats
    /\ isGenerating' = FALSE
    /\ abortControllerRef' = 0
    /\ aborted' = [p \in Passes |-> FALSE]
    /\ pass' = [p \in Passes |-> IdlePass]
    /\ nPasses' = 0
    /\ UNCHANGED variant

\* Mutant: the stop leaves isGenerating as it is.
stopHandlerKeepingFlag ==
    /\ abortControllerRef # 0
    /\ aborted' = [aborted EXCEPT ![abortControllerRef] = TRUE]
    /\ generatedTree' = generatedTree \o StopMarker(variant)
    /\ UNCHANGED <<variant, fileList, rootName, config, stats, isGenerating,
                   abortControllerRef, pass, nPasses, page>>

\* The body of the stopGeneration function, whoever calls it.
stopHandler ==
    /\ abortControllerRef # 0
    /\ aborted' = [aborted EXCEPT ![abortControllerRef] = TRUE]
    /\ isGenerating' = FALSE
    /\ generatedTree' = generatedTree \o StopMarker(variant)
    /\ UNCHANGED <<variant, fileList, rootName, config, stats,
                   abortControllerRef, pass, nPasses, page>>

\* A click on the stop button, which is rendered only while isGenerating.
stopGeneration ==
    /\ isGenerating
    /\ stopHandler

\* Mutant: the flag and the token are reset after a success only, as if the
\* reset stood at the end of the try block instead of in finally.
FinishResettingOnSuccess(p, pr, outcome, text, statistics) ==
    /\ pass' = [pass EXCEPT ![p] = [pr EXCEPT !.pc = "done", !.outcome = outcome]]
    /\ generatedTree' = IF outcome \in {"published", "failed"} THEN text
                        ELSE generatedTree
    /\ stats' = IF outcome = "published" THEN statistics ELSE stats
    /\ IF outcome = "published"
       THEN isGenerating' = FALSE /\ abortControllerRef' = 0
       ELSE UNCHANGED <<isGenerating, abortControllerRef>>
    /\ UNCHANGED <<variant, fileList, rootName, config, aborted, nPasses>>

\* Mutant: finally resets the flag and clears the token whether or not the
\* signal is aborted.
FinishClearingAlways(p, pr, outcome, text, statistics) ==
    /\ pass' = [pass EXCEPT ![p] = [pr EXCEPT !.pc = "done", !.outcome = outcome]]
    /\ generatedTree' = IF outcome \in {"published", "failed"} THEN text
                        ELSE generatedTree
    /\ stats' = IF outcome = "published" THEN statistics ELSE stats
    /\ isGenerating' = FALSE
    /\ abortControllerRef' = 0
    /\ UNCHANGED <<variant, fileList, rootName, config, aborted, nPasses>>

\* The end of generate for pass p with the given outcome: the publication of
\* a result or of an error text, then the finally block.
Finish(p, pr, outcome, text, statistics) ==
    /\ pass' = [pass EXCEPT ![p] = [pr EXCEPT !.pc = "done", !.outcome = outcome]]
    /\ generatedTree' = IF outcome \in {"published", "failed"} THEN text
                        ELSE generatedTree
    /\ stats' = IF outcome = "published" THEN statistics ELSE stats
    /\ IF ~aborted[p]
       THEN isGenerating' = FALSE /\ abortControllerRef' = 0
       ELSE UNCHANGED <<isGenerating, abortControllerRef>>
    /\ UNCHANGED <<variant, fileList, rootName, config, aborted, nPasses>>

\* A pass goes on waiting at a yield.
Suspend(p, pr) ==
    /\ pass' = [pass EXCEPT ![p] = pr]
    /\ UNCHANGED <<variant, fileList, rootName, config, generatedTree, stats,
                   isGenerating, abortControllerRef, aborted, nPasses>>

\* buildTreeAsync after its loop: the JSON text, or the root line and the
\* renderer up to its first yield; then, back in generate, the publication.
AfterLoop(p, pr) ==
    IF pr.cfg.style = "json"
    THEN LET text == JsonLevel(pr.b.tree, "")
         IN Finish(p, [pr EXCEPT !.out = text],
                   IF MayPublish(aborted[p]) THEN "published" ELSE "discarded",
                   text, pr.b.stats)
    ELSE LET r == RunTrace(TraceOf(pr, variant), 1,
                           RootLine(pr.cfg, pr.root, pr.b.stats), aborted[p])
             pr2 == [pr EXCEPT !.pos = r.pos, !.out = r.out]
         IN IF r.status = "yield" THEN Suspend(p, [pr2 EXCEPT !.pc = "render"])
            ELSE IF r.status = "throw" THEN Finish(p, pr2, "Aborted", "", emptyStats)
            ELSE Finish(p, pr2,
                        IF MayPublish(aborted[p]) THEN "published" ELSE "discarded",
                        r.out, pr.b.stats)

\* The number of entries the loop has read when InsertRange ends: n, or the
\* entries up to and including the one that throws.
RECURSIVE EntriesRead(_, _, _, _, _)
EntriesRead(b, files, i, n, cfg) ==
    IF i >= n \/ b.err # "" THEN i
    ELSE EntriesRead(InsertEntry(b, files[i + 1], cfg), files, i + 1, n, cfg)

\* The build loop from entry pr.i on, up to its next yield.
BuildFrom(p, pr) ==
    LET n == Len(pr.files)
        j == NextStop(pr.i, n)
        b == InsertRange(pr.b, pr.files, pr.i, j, pr.cfg)
        pr2 == [pr EXCEPT !.b = b,
                          !.i = EntriesRead(pr.b, pr.files, pr.i, j, pr.cfg)]
    IN IF b.err # ""
       THEN Finish(p, pr2, "failed", "Error: " \o b.err, emptyStats)
       ELSE IF j < n THEN Suspend(p, pr2)
       ELSE AfterLoop(p, pr2)

\* The timer of the initial delay fires: the return when aborted, else
\* buildTreeAsync up to the yield before entry 0.
TimerDelay(p) ==
    /\ pass[p].pc = "delay"
    /\ IF aborted[p]
       THEN Finish(p, pass[p], "returned", "", emptyStats)
       ELSE IF Len(pass[p].files) > 0
            THEN Suspend(p, [pass[p] EXCEPT !.pc = "build"])
            ELSE AfterLoop(p, pass[p])
    /\ UNCHANGED page

\* Mutant: the loop resumes without testing signal.aborted.
BuildResumeUnchecked(p) ==
    /\ pass[p].pc = "build"
    /\ BuildFrom(p, pass[p])
    /\ UNCHANGED page

\* The timer of a yield of the build loop fires.
BuildResume(p) ==
    /\ pass[p].pc = "build"
    /\ IF aborted[p]
       THEN Finish(p, pass[p], "Aborted", "", emptyStats)
       ELSE BuildFrom(p, pass[p])
    /\ UNCHANGED page

\* The timer of a yield of renderNodes fires.
RenderResume(p) ==
    /\ pass[p].pc = "render"
    /\ LET pr == pass[p]
           r == RunTrace(TraceOf(pr, variant), pr.pos + 1, pr.out, aborted[p])
           pr2 == [pr EXCEPT !.pos = r.pos, !.out = r.out]
       IN IF r.status = "yield" THEN Suspend(p, pr2)
          ELSE IF r.status = "throw" THEN Finish(p, pr2, "Aborted", "", emptyStats)
          ELSE Finish(p, pr2,
                      IF MayPublish(aborted[p]) THEN "published" ELSE "discarded",
                      r.out, pr.b.stats)
    /\ UNCHANGED page

PassStep(p) == TimerDelay(p) \/ BuildResume(p) \/ RenderResume(p)

-----------------------------------------------------------------------------
(* Inputs *)

\* The files the builder specification draws its lists from: a plain file, a
\* nested file, a file below a default-ignored directory, a file whose path
\* is a directory of another entry, a directory differing only in case, a
\* name inherited from Object.prototype, a file without a relative path, an
\* entry whose path is empty, and two names that are array indices, one of
\* them a file of 1 GB.
FilePool ==
    {File("root/a.txt", 10), File("root/sub/b.txt", 20),
     File("root/sub/.git/x", 5), File("root/sub", 7),
     File("root/Sub/a.txt", 1536), File("root/toString", 3),
     LooseFile("root", 1), LooseFile("", 0),
     File("root/10", 1073741824), File("root/9", 2)}

RECURSIVE SeqsUpTo(_, _)
SeqsUpTo(S, n) ==
    IF n = 0 THEN {<<>>}
    ELSE LET shorter == SeqsUpTo(S, n - 1)
         IN shorter \cup {Append(q, x) : q \in {r \in shorter : Len(r) = n - 1}, x \in S}

BuildFileLists == SeqsUpTo(FilePool, MaxFiles) \ {<<>>}

\* The builder specification: both ignore lists, under configurations that
\* differ in every option the builder must not read.
BuildConfigs ==
    {[maxDepth |-> o.d, style |-> o.st, ignores |-> ig, showFiles |-> o.sf,
      showSizes |-> o.sz, trailingSlash |-> o.sz] :
        ig \in {<<>>, <<".git">>},
        o \in {[d |-> MaxDepthBound, st |-> "classic", sf |-> TRUE, sz |-> FALSE],
               [d |-> MaxDepthBound, st |-> "json", sf |-> TRUE, sz |-> FALSE],
               [d |-> 1, st |-> "indent", sf |-> FALSE, sz |-> TRUE]}}

\* The style ids a configuration can carry: the ones the buttons offer, and,
\* from a saved configuration (JSON.parse of localStorage, not validated), a
\* name inherited from Object.prototype.
SavedStyles == Styles \cup {"toString"}

\* The renderer specification: every style, depth limit and display option,
\* on the lists of the files that build a hierarchy without error, one of
\* them a file of 1 GB whose name is an array index.
RenderPool ==
    {File("root/a.txt", 10), File("root/sub/b.txt", 20),
     File("root/sub/.git/x", 5), File("root/Sub/a.txt", 1536),
     File("root/10", 1073741824)}

RenderFileLists == SeqsUpTo(RenderPool, MaxFiles) \ {<<>>}

RenderConfigs ==
    {[maxDepth |-> d, style |-> st, ignores |-> ig, showFiles |-> sf,
      showSizes |-> o, trailingSlash |-> o] :
        d \in 1..MaxDepthBound, st \in SavedStyles, ig \in {<<>>, <<".git">>},
        sf \in BOOLEAN, o \in BOOLEAN}

\* The inputs of the controller specification: a list of two batches, and a
\* list on which the build throws.
CtlFileLists ==
    {<<File("root/a.txt", 10), File("root/sub/b.txt", 20), File("root/sub/.git/x", 5)>>,
     <<File("root/sub", 7), File("root/sub/b.txt", 20)>>}

CtlConfigs ==
    {[DefaultConfig EXCEPT !.ignores = <<".git">>],
     [DefaultConfig EXCEPT !.style = "json", !.ignores = <<>>]}

-----------------------------------------------------------------------------
(* Specifications *)

Init == InitWith(CtlConfigs)

Next ==
    \/ \E files \in CtlFileLists : handleFolderSelect(files)
    \/ \E c \in CtlConfigs : setConfig(c)
    \/ resetConfig
    \/ pageLoad
    \/ stopGeneration
    \/ \E p \in Passes : PassStep(p)

\* The controller under every interleaving of user events and timers.
Spec == Init /\ [][Next]_vars

\* The timer pass p waits for is a yield of the build loop, of renderNodes.
AtBuildYield(p) == pass[p].pc = "build"
AtRenderYield(p) == pass[p].pc = "render"

\* Weak fairness of the two resumptions, with ENABLED written out: a resumed
\* pass always moves (its index, its position or its pc changes), so each
\* resumption is enabled exactly while the pass waits at its yield.
ResumeFair(p) ==
    /\ []<>~AtBuildYield(p) \/ []<><<BuildResume(p)>>_vars
    /\ []<>~AtRenderYield(p) \/ []<><<RenderResume(p)>>_vars

\* The event loop runs every timer that is due: the initial delay and the
\* yields of the two loops; and a reload that was asked for takes place.
FairSpec ==
    /\ Spec
    /\ \A p \in Passes : WF_vars(TimerDelay(p)) /\ ResumeFair(p)
    /\ WF_vars(pageLoad)

InitBuild == InitWith(BuildConfigs)

NextBuild ==
    \/ \E files \in BuildFileLists : nPasses = 0 /\ handleFolderSelect(files)
    \/ \E p \in Passes : PassStep(p)

\* One uninterrupted pass on every file list of the bounds.
BuildSpec == InitBuild /\ [][NextBuild]_vars

InitRender == InitWith(RenderConfigs)

NextRender ==
    \/ \E files \in RenderFileLists : nPasses = 0 /\ handleFolderSelect(files)
    \/ \E p \in Passes : PassStep(p)

\* One uninterrupted pass under every configuration of the bounds.
RenderSpec == InitRender /\ [][NextRender]_vars

-----------------------------------------------------------------------------
(* Vocabulary of the properties *)

\* The nodes of a hierarchy: path from the root, type, and size (0 for a
\* directory).
RECURSIVE NodesOf(_, _)
NodesOf(level, path) ==
    UNION {
        {[path |-> Append(path, level[k].name), type |-> level[k].node._type,
          size |-> IF level[k].node._type = "file" THEN level[k].node.size ELSE 0]}
        \cup (IF level[k].node._type = "dir"
              THEN NodesOf(level[k].node._children, Append(path, level[k].name))
              ELSE {})
        : k \in 1..Len(level)}

\* The entries of a hierarchy counted one by one, level by level.
RECURSIVE CountEntries(_, _)
RECURSIVE CountFrom(_, _, _)
CountEntries(level, type) == CountFrom(level, 1, type)
CountFrom(level, k, type) ==
    IF k > Len(level) THEN 0
    ELSE (IF level[k].node._type = type THEN 1 ELSE 0)
         + (IF level[k].node._type = "dir"
            THEN CountEntries(level[k].node._children, type) ELSE 0)
         + CountFrom(level, k + 1, type)

\* The sizes stored in the file nodes, added up.
RECURSIVE SumSizes(_)
RECURSIVE SumFrom(_, _)
SumSizes(level) == SumFrom(level, 1)
SumFrom(level, k) ==
    IF k > Len(level) THEN 0
    ELSE (IF level[k].node._type = "file" THEN level[k].node.size
          ELSE SumSizes(level[k].node._children))
         + SumFrom(level, k + 1)

DirNodes(tree) == {n \in NodesOf(tree, <<>>) : n.type = "dir"}
FileNodes(tree) == {n \in NodesOf(tree, <<>>) : n.type = "file"}

\* The entries of a list that the filter keeps / drops under cfg.
IsSegmentIgnored(f, cfg) ==
    \E i \in 1..Len(RelevantParts(f)) : \E j \in 1..Len(cfg.ignores) :
        RelevantParts(f)[i] = cfg.ignores[j]

Kept(files, cfg) == SelectSeq(files, LAMBDA f : ~IsSegmentIgnored(f, cfg))

\* The entries pass record pr has been through.
Processed(pr) == SubSeq(pr.files, 1, pr.i)

Started(p) == pass[p].pc # "idle"
Published(p) == pass[p].outcome = "published"

\* The relevant parts of the kept entries that have any.
KeptParts(files, cfg) ==
    {RelevantParts(files[k]) : k \in {j \in 1..Len(files) :
        /\ ~IsSegmentIgnored(files[j], cfg)
        /\ RelevantParts(files[j]) # <<>>}}

\* The distinct file paths and directory prefixes of a list.
FilePaths(files, cfg) == KeptParts(files, cfg)
DirPrefixes(files, cfg) ==
    UNION {{SubSeq(parts, 1, k) : k \in 1..Len(parts) - 1} :
           parts \in KeptParts(files, cfg)}

\* The size the first entry with the given relevant parts carries.
FirstSize(files, parts) ==
    LET k == CHOOSE j \in 1..Len(files) :
                /\ RelevantParts(files[j]) = parts
                /\ \A h \in 1..j - 1 : RelevantParts(files[h]) # parts
    IN files[k].size

RECURSIVE SumOver(_, _, _)
SumOver(S, files, acc) ==
    IF S = {} THEN acc
    ELSE LET x == CHOOSE y \in S : TRUE
         IN SumOver(S \ {x}, files, acc + FirstSize(files, x))

\* No path is both a file and a directory of the list, and no segment is a
\* property name inherited from Object.prototype.
ConflictFree(files, cfg) ==
    /\ FilePaths(files, cfg) \cap DirPrefixes(files, cfg) = {}
    /\ \A parts \in KeptParts(files, cfg) : \A k \in 1..Len(parts) :
           parts[k] \notin ObjectPrototypeKeys

PathsOf(nodes) == {n.path : n \in nodes}

-----------------------------------------------------------------------------
(* C1 - C3: the builder, under BuildSpec *)

\* C1: the statistics a pass returns count the hierarchy it built: dirs is
\* the number of distinct directory nodes, files the number of distinct file
\* nodes; and dirs, files and totalSize are the same under every
\* configuration that differs only in showFiles, maxDepth, style, showSizes
\* and trailingSlash.
C1_StatisticsCountNodes ==
    \A p \in Passes : Published(p) =>
        LET pr == pass[p]
            t == pr.b.tree
        IN /\ stats = pr.b.stats
           /\ stats.dirs = Cardinality(DirNodes(t))
           /\ stats.dirs = CountEntries(t, "dir")
           /\ stats.files = Cardinality(FileNodes(t))
           /\ stats.files = CountEntries(t, "file")
           /\ \A c \in BuildConfigs : c.ignores = pr.cfg.ignores =>
                  LET r == buildTreeAsync(pr.files, c, pr.root, variant)
                  IN r.ok /\ r.statistics = stats

\* A pass has returned statistics that count two directories and two files
\* while the display hides every file and stops at depth 1.
C1_Witness ==
    /\ Published(1)
    /\ ~pass[1].cfg.showFiles
    /\ pass[1].cfg.maxDepth = 1
    /\ stats.dirs >= 2
    /\ stats.files >= 2

\* C2: an entry with a segment equal to a member of cfg.ignores inserts
\* nothing: the builder state is the one the kept entries alone produce, no
\* node and no line carries an ignored segment, and the published text and
\* statistics are those of the list without the ignored entries.
C2_IgnoredEntriesInsertNothing ==
    \A p \in Passes : Started(p) =>
        LET pr == pass[p]
            kept == Kept(Processed(pr), pr.cfg)
            isIgnoredName(name) ==
                \E j \in 1..Len(pr.cfg.ignores) : pr.cfg.ignores[j] = name
        IN /\ pr.b = InsertRange(emptyBuild, kept, 0, Len(kept), pr.cfg)
           /\ \A n \in NodesOf(pr.b.tree, <<>>) :
                  \A k \in 1..Len(n.path) : ~isIgnoredName(n.path[k])
           /\ \A it \in {TraceOf(pr, variant)[k] : k \in 1..Len(TraceOf(pr, variant))} :
                  it.kind = "line" =>
                      \A k \in 1..Len(it.path) : ~isIgnoredName(it.path[k])
           /\ Published(p) =>
                  LET r == buildTreeAsync(Kept(pr.files, pr.cfg), pr.cfg,
                                          pr.root, variant)
                  IN r.ok /\ generatedTree = r.treeString /\ stats = r.statistics

\* A pass has published a result for a list with an entry below an ignored
\* directory, and the hierarchy holds no directory at all: not even the
\* entry's own prefix directory was created.
C2_Witness ==
    /\ Published(1)
    /\ \E k \in 1..Len(pass[1].files) :
           /\ IsSegmentIgnored(pass[1].files[k], pass[1].cfg)
           /\ Len(RelevantParts(pass[1].files[k])) >= 3
    /\ DirNodes(pass[1].b.tree) = {}
    /\ FileNodes(pass[1].b.tree) # {}

\* C3 as stated: after any sequence of entries dirs is the number of distinct
\* directory prefixes, files the number of distinct file paths and totalSize
\* the sum of the first-occurrence sizes of the distinct file paths.
C3_CountsDistinctPaths ==
    \A p \in Passes : (Started(p) /\ pass[p].b.err = "") =>
        LET pr == pass[p]
            files == Processed(pr)
        IN /\ pr.b.stats.dirs = Cardinality(DirPrefixes(files, pr.cfg))
           /\ pr.b.stats.files = Cardinality(FilePaths(files, pr.cfg))
           /\ pr.b.stats.totalSize =
                  SumOver(FilePaths(files, pr.cfg), Kept(files, pr.cfg), 0)

C3_State ==
    \A p \in Passes : Started(p) =>
        LET pr == pass[p]
            t == pr.b.tree
            files == Kept(Processed(pr), pr.cfg)
        IN /\ pr.b.stats.dirs = Cardinality(DirNodes(t))
           /\ pr.b.stats.dirs = CountEntries(t, "dir")
           /\ pr.b.stats.files = Cardinality(FileNodes(t))
           /\ pr.b.stats.files = CountEntries(t, "file")
           /\ pr.b.stats.totalSize = SumSizes(t)
           /\ \A n \in FileNodes(t) :
                  /\ n.path \in FilePaths(files, pr.cfg)
                  /\ n.size = FirstSize(files, n.path)
           /\ PathsOf(DirNodes(t)) \subseteq DirPrefixes(files, pr.cfg)
           /\ ConflictFree(files, pr.cfg) =>
                  /\ pr.b.err = ""
                  /\ PathsOf(DirNodes(t)) = DirPrefixes(files, pr.cfg)
                  /\ PathsOf(FileNodes(t)) = FilePaths(files, pr.cfg)

C3_Step ==
    \A p \in Passes :
        /\ pass'[p].b.stats.dirs >= pass[p].b.stats.dirs
        /\ pass'[p].b.stats.files >= pass[p].b.stats.files
        /\ pass'[p].b.stats.totalSize >= pass[p].b.stats.totalSize
        /\ NodesOf(pass[p].b.tree, <<>>) \subseteq NodesOf(pass'[p].b.tree, <<>>)

\* C3 (amended): an entry whose path is already in the hierarchy leaves the
\* existing nodes and the counters alone: at every point of a build dirs is
\* the number of directory nodes, files the number of file nodes and
\* totalSize the sum of the sizes stored in the file nodes, each the size of
\* the first entry with that path; every node stays and no counter
\* decreases; and on a list where no path is both a file and a directory and
\* no segment is an inherited property name, these are the numbers of
\* distinct directory prefixes and of distinct file paths.
C3_CountsOncePerNode == []C3_State /\ [][C3_Step]_vars

\* A build has gone through the same nested path twice and counted it once.
C3_Witness ==
    /\ Published(1)
    /\ \E i, j \in 1..Len(pass[1].files) :
           /\ i < j
           /\ pass[1].files[i] = pass[1].files[j]
           /\ Len(RelevantParts(pass[1].files[i])) >= 2
           /\ ~IsSegmentIgnored(pass[1].files[i], pass[1].cfg)
    /\ stats.files = 1
    /\ stats.dirs = 1

-----------------------------------------------------------------------------
(* C4 - C8: the controller, under Spec and FairSpec *)

\* Pass p takes a step: it is started, or one of its timers fires.  The page
\* reload that drops every pass is a step of none of them.
Steps(p) == pass'[p] # pass[p] /\ pass'[p].pc # "idle"

\* What an uncancelled run of the inputs of pass p returns.
ResultOf(p) == buildTreeAsync(pass[p].files, pass[p].cfg, pass[p].root, variant)

\* C4: once its signal is aborted a pass never writes the displayed text or
\* the displayed statistics, through the success path or the error path.
C4_AbortedPassNeverWrites ==
    [][\A p \in Passes :
          (aborted[p] /\ Steps(p)) =>
              /\ generatedTree' = generatedTree
              /\ stats' = stats]_vars

\* A superseded pass has run its renderer to the end and its result was
\* dropped, and a pass started after it has published.
C4_Witness ==
    \E p, q \in Passes :
        /\ p < q
        /\ pass[p].outcome = "discarded"
        /\ Published(q)
        /\ generatedTree = pass[q].out
        /\ pass[p].out # pass[q].out

\* C5: a pass whose signal is aborted while its builder waits at a batch
\* yield fails with 'Aborted' when it resumes: it processes no further
\* entry, returns nothing, and the controller publishes neither statistics
\* nor an error text for it.
C5_AbortAtBatchYield ==
    [][\A p \in Passes :
          (pass[p].pc = "build" /\ aborted[p] /\ Steps(p)) =>
              /\ pass'[p].pc = "done"
              /\ pass'[p].outcome = "Aborted"
              /\ pass'[p].i = pass[p].i
              /\ pass'[p].b = pass[p].b
              /\ pass'[p].out = ""
              /\ stats' = stats
              /\ generatedTree' = generatedTree]_vars

\* A pass was aborted at the yield before its second batch and failed with
\* 'Aborted' there, with entries left to process.
C5_Witness ==
    \E p \in Passes :
        /\ pass[p].outcome = "Aborted"
        /\ pass[p].i = CHUNK_SIZE
        /\ pass[p].i < Len(pass[p].files)
        /\ pass[p].pos = 0

\* C6: starting a pass, cancelling one, and the end of a cancelled pass
\* leave the displayed statistics alone and leave the displayed text as it
\* was, or as it was followed by the cancellation marker.
C6_CancelKeepsLastResult ==
    [][(\/ nPasses' > nPasses
        \/ \E p \in Passes : ~aborted[p] /\ aborted'[p]
        \/ \E p \in Passes : aborted[p] /\ Steps(p)) =>
           /\ stats' = stats
           /\ \/ generatedTree' = generatedTree
              \/ generatedTree' = generatedTree \o StopMarker(variant)]_vars

\* C7: a pass that was not cancelled and fails with another error than
\* 'Aborted' puts the error description in the displayed text, leaves the
\* statistics as the last successful pass (or the initial state) set them,
\* resets isGenerating and clears the token; and what any pass publishes is
\* the result of its own inputs, whatever failed before it.
C7_FailureStep ==
    \A p \in Passes :
        (pass'[p].outcome = "failed" /\ pass[p].outcome # "failed") =>
            /\ ~aborted[p]
            /\ pass'[p].b.err # ""
            /\ generatedTree' = "Error: " \o pass'[p].b.err
            /\ stats' = stats
            /\ ~isGenerating'
            /\ abortControllerRef' = 0

C7_State ==
    /\ stats \in {emptyStats} \cup {pass[q].b.stats : q \in {r \in Passes : Published(r)}}
    /\ \A q \in Passes : Published(q) =>
           /\ ResultOf(q).ok
           /\ pass[q].out = ResultOf(q).treeString
           /\ pass[q].b.stats = ResultOf(q).statistics

C7_FailedPassIsContained == []C7_State /\ [][C7_FailureStep]_vars

\* A pass has failed, leaving the statistics of the pass before it on
\* display, and a pass started afterwards has published its own result.
C7_Witness ==
    \E p, q, r \in Passes :
        /\ p < q /\ q < r
        /\ Published(p)
        /\ pass[q].outcome = "failed"
        /\ Published(r)
        /\ generatedTree = ResultOf(r).treeString
        /\ stats = ResultOf(r).statistics

\* The pass started for the latest input.
Latest == nPasses

LatestResultShown ==
    (/\ Latest > 0
     /\ pass[Latest].pc = "done"
     /\ ~aborted[Latest]
     /\ pass[Latest].outcome # "failed") =>
        /\ ResultOf(Latest).ok
        /\ generatedTree = ResultOf(Latest).treeString
        /\ stats = ResultOf(Latest).statistics
        /\ ~isGenerating

-----------------------------------------------------------------------------
(* C9 - C10: the renderer, under RenderSpec *)

\* The lines below the root line that the pass of record pr emits, in order.
TextLines(pr) == LinesOf(TraceOf(pr, variant))

Parent(path) == SubSeq(path, 1, Len(path) - 1)
NameOf(path) == path[Len(path)]

\* Pass p has published a text of one of the line styles.
PublishedText(p) == Published(p) /\ pass[p].cfg.style # "json"

\* The displayed text is the root line followed by the given lines.
ShowsLines(p, L) ==
    generatedTree = RootLine(pass[p].cfg, pass[p].root, pass[p].b.stats) \o LinesText(L)

\* C9: in the published text of every line style, among the lines of the
\* direct children of one directory every directory line precedes every file
\* line, and within each of the two groups the lines are in localeCompare
\* order of their names.
C9_ChildrenOrdered ==
    \A p \in Passes : PublishedText(p) =>
        LET L == TextLines(pass[p])
        IN /\ ShowsLines(p, L)
           /\ \A i, j \in 1..Len(L) :
                  (i < j /\ Parent(L[i].path) = Parent(L[j].path)) =>
                      /\ ~(~L[i].isDir /\ L[j].isDir)
                      /\ (L[i].isDir = L[j].isDir) =>
                             localeCompare(NameOf(L[i].path), NameOf(L[j].path)) <= 0

\* A published text in which the sort has moved entries: the root holds a
\* file inserted before a directory, and two directories whose names differ
\* in case only, inserted in the opposite of their displayed order.
C9_Witness ==
    \E p \in Passes :
        /\ PublishedText(p)
        /\ LET L == TextLines(pass[p])
               tree == pass[p].b.tree
           IN /\ Len(tree) = 3
              /\ tree[1].node._type = "file"
              /\ tree[2].name = "Sub" /\ tree[3].name = "sub"
              /\ L[1].path = <<"sub">>
              /\ \E i, j \in 1..Len(L) :
                     /\ i < j
                     /\ L[i].path = <<"Sub">>
                     /\ L[j].path = <<tree[1].name>>

\* The depth of a node: 1 for the direct children of the root.
DepthOf(path) == Len(path)

\* C10 as stated: no line for a node of depth maxDepth or more.
C10_NoLineAtMaxDepth ==
    \A p \in Passes : PublishedText(p) =>
        \A i \in 1..Len(TextLines(pass[p])) :
            DepthOf(TextLines(pass[p])[i].path) < pass[p].cfg.maxDepth

\* The nodes of the hierarchy of record pr that the display options keep.
Shown(pr) ==
    {n \in NodesOf(pr.b.tree, <<>>) :
        /\ DepthOf(n.path) <= pr.cfg.maxDepth
        /\ pr.cfg.showFiles \/ n.type = "dir"}

\* C10: with the root at depth 0 and its direct children at depth 1, no
\* line of a published text is for a node of depth greater than maxDepth:
\* renderNodes starts at depth 0 on the children of the root and returns
\* when its depth reaches maxDepth, so the lines are those of the nodes of
\* depth 1 to maxDepth (the files among them when showFiles is set), one
\* line each.
C10_NoLineBelowMaxDepth ==
    \A p \in Passes : PublishedText(p) =>
        LET L == TextLines(pass[p])
        IN /\ ShowsLines(p, L)
           /\ \A i \in 1..Len(L) : DepthOf(L[i].path) <= pass[p].cfg.maxDepth
           /\ {L[i].path : i \in 1..Len(L)} = PathsOf(Shown(pass[p]))
           /\ Len(L) = Cardinality(Shown(pass[p]))

\* A published text that the depth limit has cut: the hierarchy holds a
\* node deeper than maxDepth, and the text a line of depth maxDepth.
C10_Witness ==
    \E p \in Passes :
        /\ PublishedText(p)
        /\ \E n \in NodesOf(pass[p].b.tree, <<>>) :
               DepthOf(n.path) > pass[p].cfg.maxDepth
        /\ \E i \in 1..Len(TextLines(pass[p])) :
               DepthOf(TextLines(pass[p])[i].path) = pass[p].cfg.maxDepth

-----------------------------------------------------------------------------
(* C11 - C20 *)

\* The text up to and including its first line break (all of it when it has
\* none).
RECURSIVE FirstLineFrom(_, _)
FirstLineFrom(s, k) ==
    IF k > Len(s) THEN s
    ELSE IF SubSeq(s, k, k) = "\n" THEN SubSeq(s, 1, k)
    ELSE FirstLineFrom(s, k + 1)
FirstLine(s) == FirstLineFrom(s, 1)

\* The root line as the configuration and the hierarchy of record pr call
\* for it.
ExpectedRootLine(pr) ==
    pr.root
    \o (IF pr.cfg.trailingSlash THEN "/" ELSE "")
    \o (IF pr.cfg.showSizes
        THEN " (" \o formatSize(SumSizes(pr.b.tree)) \o ")" ELSE "")
    \o "\n"

\* C11: for every non-empty path list and every line style the first line
\* of the published text is the root line (rootName, '/' when trailingSlash,
\* the aggregate size when showSizes), for every maxDepth, every showFiles,
\* and when the ignore list drops every path.
C11_RootLineFirst ==
    \A p \in Passes : PublishedText(p) =>
        /\ pass[p].files # <<>>
        /\ FirstLine(generatedTree) = ExpectedRootLine(pass[p])
        /\ FirstLine(pass[p].out) = ExpectedRootLine(pass[p])

\* A published text that is the root line alone because every path was
\* ignored, under maxDepth 1 with files hidden.
C11_Witness ==
    \E p \in Passes :
        /\ PublishedText(p)
        /\ pass[p].files # <<>>
        /\ pass[p].b.tree = emptyTree
        /\ pass[p].cfg.maxDepth = 1
        /\ ~pass[p].cfg.showFiles
        /\ generatedTree = ExpectedRootLine(pass[p])

\* Pass p has run to its end without its signal being aborted.
Uncancelled(p) == pass[p].pc = "done" /\ ~aborted[p]

SameInput(p, q) ==
    /\ pass[p].files = pass[q].files
    /\ pass[p].cfg = pass[q].cfg
    /\ pass[p].root = pass[q].root

\* C12: two uncancelled passes on the same path list, rootName and
\* configuration end alike, with byte-identical text and equal statistics,
\* whatever happened between their yields.
C12_SameInputSameResult ==
    \A p, q \in Passes :
        (Uncancelled(p) /\ Uncancelled(q) /\ SameInput(p, q)) =>
            /\ pass[p].outcome = pass[q].outcome
            /\ pass[p].out = pass[q].out
            /\ pass[p].b.stats = pass[q].b.stats
            /\ pass[p].b.err = pass[q].b.err

\* The first and the third pass have published for the same input, which
\* counts something, and the pass between them, on another configuration,
\* was superseded.
C12_Witness ==
    /\ Published(1) /\ Published(3)
    /\ SameInput(1, 3)
    /\ pass[2].cfg # pass[1].cfg
    /\ pass[2].outcome \in {"returned", "Aborted", "discarded"}
    /\ pass[1].b.stats.files > 0
    /\ pass[1].out # ""


\* The directory nodes of record pr within the depth limit.
DirsWithinLimit(pr) ==
    {n \in DirNodes(pr.b.tree) : DepthOf(n.path) <= pr.cfg.maxDepth}

\* The directories of a hierarchy all of whose children are files.
LeafDirs(tree) ==
    {n \in DirNodes(tree) :
        /\ \E m \in FileNodes(tree) : Parent(m.path) = n.path
        /\ \A m \in DirNodes(tree) : Parent(m.path) # n.path}

\* C13: with showFiles false the published text has no line for a file
\* node and exactly one line for every directory node within the depth
\* limit, the directories that hold only files included; the statistics
\* count the hidden files all the same.
C13_HiddenFilesStillCounted ==
    \A p \in Passes : (PublishedText(p) /\ ~pass[p].cfg.showFiles) =>
        LET L == TextLines(pass[p])
        IN /\ ShowsLines(p, L)
           /\ \A i \in 1..Len(L) : L[i].isDir
           /\ {L[i].path : i \in 1..Len(L)} = PathsOf(DirsWithinLimit(pass[p]))
           /\ Len(L) = Cardinality(DirsWithinLimit(pass[p]))
           /\ stats.files = CountEntries(pass[p].b.tree, "file")
           /\ stats.totalSize = SumSizes(pass[p].b.tree)
           /\ stats.dirs = CountEntries(pass[p].b.tree, "dir")

\* A text published with files hidden that has the line of a directory
\* holding only files, while the statistics count files.
C13_Witness ==
    \E p \in Passes :
        /\ PublishedText(p)
        /\ ~pass[p].cfg.showFiles
        /\ stats.files >= 2
        /\ \E n \in LeafDirs(pass[p].b.tree) :
               \E i \in 1..Len(TextLines(pass[p])) :
                   TextLines(pass[p])[i].path = n.path
        /\ \E m \in FileNodes(pass[p].b.tree) : DepthOf(m.path) = 1


\* Path P is a proper prefix of parts / the first kept entry that mentions
\* path P, as a file (its whole path) or as a directory (a proper prefix).
IsProperPrefix(P, parts) == Len(P) < Len(parts) /\ SubSeq(parts, 1, Len(P)) = P

Mentions(f, P) == RelevantParts(f) = P \/ IsProperPrefix(P, RelevantParts(f))

FirstTypeOf(files, cfg, P) ==
    LET K == Kept(files, cfg)
        k == CHOOSE j \in 1..Len(K) :
                 /\ Mentions(K[j], P)
                 /\ \A h \in 1..j - 1 : ~Mentions(K[h], P)
    IN IF RelevantParts(K[k]) = P THEN "file" ELSE "dir"

\* The paths the list gives both as a file and as a directory.
Conflicts(files, cfg) == FilePaths(files, cfg) \cap DirPrefixes(files, cfg)

\* C14: when the list is inconsistent about the type of a path (a file
\* first and a directory prefix later, or the reverse) the build completes
\* without an error outcome, and the node has the type first observed.
C14_ConflictKeepsFirstType ==
    \A p \in Passes :
        (pass[p].pc = "done" /\ ~aborted[p]
         /\ Conflicts(pass[p].files, pass[p].cfg) # {}) =>
            /\ pass[p].outcome = "published"
            /\ pass[p].b.err = ""
            /\ \A P \in Conflicts(pass[p].files, pass[p].cfg) :
                   \A n \in NodesOf(pass[p].b.tree, <<>>) :
                       n.path = P => n.type = FirstTypeOf(pass[p].files, pass[p].cfg, P)


\* The concrete scenario: three paths, one below .git, the classic style.
ScenarioFiles ==
    <<File("root/a.txt", 10), File("root/sub/b.txt", 20), File("root/sub/.git/x", 5)>>

ScenarioConfig ==
    [maxDepth |-> 10, style |-> "classic", ignores |-> <<".git">>,
     showFiles |-> TRUE, showSizes |-> FALSE, trailingSlash |-> FALSE]

ScenarioText == "root\n{T}{-}{-} sub\n{I}   {L}{-}{-} b.txt\n{L}{-}{-} a.txt\n"

ScenarioStats == [dirs |-> 1, files |-> 2, totalSize |-> 30]

IsScenario(pr) ==
    pr.files = ScenarioFiles /\ pr.cfg = ScenarioConfig /\ pr.root = "root"

\* C15: for root/a.txt (10), root/sub/b.txt (20), root/sub/.git/x (5) with
\* ignores {.git}, style classic, showFiles, no trailingSlash, no showSizes,
\* maxDepth 10 and rootName root, the text is the four lines 'root',
\* '{T}{-}{-} sub', '{I}   {L}{-}{-} b.txt', '{L}{-}{-} a.txt', each with its line
\* break, and the statistics are dirs 1, files 2, totalSize 30.
C15_ConcreteScenario ==
    /\ buildTreeAsync(ScenarioFiles, ScenarioConfig, "root", variant)
         = [ok |-> TRUE, treeString |-> ScenarioText, statistics |-> ScenarioStats]
    /\ \A p \in Passes : (Published(p) /\ IsScenario(pass[p])) =>
           /\ pass[p].out = ScenarioText
           /\ pass[p].b.stats = ScenarioStats
           /\ (p = Latest) => (generatedTree = ScenarioText /\ stats = ScenarioStats)

\* A pass on the scenario has published and is the latest.
C15_Witness ==
    \E p \in Passes :
        /\ Published(p)
        /\ IsScenario(pass[p])
        /\ p = Latest
        /\ generatedTree = ScenarioText
        /\ stats = ScenarioStats


EndsWithLineBreak(s) == Len(s) > 0 /\ SubSeq(s, Len(s), Len(s)) = "\n"

\* C16: for every style, the structured-data style included, the string a
\* successful pass returns ends with a line break.
C16_EndsWithLineBreak ==
    \A p \in Passes : Published(p) =>
        /\ EndsWithLineBreak(pass[p].out)
        /\ EndsWithLineBreak(generatedTree)


\* The entry has a path of more than the root segment.
HasMeaningfulPath(f) == Len(Split(PathOf(f))) > 1

Meaningful(files) == SelectSeq(files, HasMeaningfulPath)

\* C17: an entry without a meaningful path (an empty path, or the root
\* segment alone) is skipped: a finished build is, in hierarchy, counters and
\* error, the build of the list without those entries, so the entries after
\* a skipped one are processed as if it were not there.
C17_PathlessEntriesSkipped ==
    \A p \in Passes : (pass[p].pc = "done" /\ ~aborted[p]) =>
        LET b == BuildAll(Meaningful(pass[p].files), pass[p].cfg)
        IN /\ pass[p].b.tree = b.tree
           /\ pass[p].b.stats = b.stats
           /\ pass[p].b.err = b.err
           /\ (Meaningful(pass[p].files) = <<>>) =>
                  (pass[p].b = emptyBuild /\ pass[p].outcome = "published")

\* A published pass whose list holds an empty path and a root-only path
\* before an entry that was inserted and counted.
C17_Witness ==
    \E p \in Passes :
        /\ Published(p)
        /\ Len(pass[p].files) = 3
        /\ PathOf(pass[p].files[1]) = ""
        /\ PathOf(pass[p].files[2]) = "root"
        /\ HasMeaningfulPath(pass[p].files[3])
        /\ pass[p].b.stats.files = 1
        /\ pass[p].b.tree # emptyTree


\* Pass p has been superseded: its signal is aborted and a pass was started
\* after it.
Superseded(p) == aborted[p] /\ nPasses > p

\* C18: passes never interleave: a superseded pass that takes a step
\* terminates with it, having inserted no further entry and rendered no
\* further line.
C18_SupersededPassStops ==
    [][\A p \in Passes :
          (Superseded(p) /\ Steps(p)) =>
              /\ pass'[p].pc = "done"
              /\ pass'[p].i = pass[p].i
              /\ pass'[p].b = pass[p].b
              /\ pass'[p].out = pass[p].out]_vars

\* The passes in flight whose signal is not aborted.
Live == {p \in Passes : Started(p) /\ pass[p].pc # "done" /\ ~aborted[p]}

C19_State ==
    /\ Cardinality(Live) <= 1
    /\ abortControllerRef \in {0, Latest}
    /\ Live \subseteq {abortControllerRef}

C19_Step ==
    (nPasses' > nPasses /\ abortControllerRef # 0) => aborted'[abortControllerRef]

\* C19: at every moment at most one pass is started, not terminated and not
\* aborted; the start of a pass aborts the signal of the pass the token
\* records; and the token designates the most recently started pass or none.
C19_AtMostOneLivePass == []C19_State /\ [][C19_Step]_vars

\* Three passes are in flight: the two superseded ones have not terminated
\* yet, and the third one is the live one.
C19_Witness ==
    /\ nPasses = 3
    /\ pass[1].pc # "done" /\ pass[2].pc # "done"
    /\ aborted[1] /\ aborted[2]
    /\ Live = {3}
    /\ abortControllerRef = 3

\* C20: the renderer tests the signal at each of its yields: a pass whose
\* signal is aborted while it waits at a yield of renderNodes fails with
\* 'Aborted' when it resumes, and emits no further line.
C20_AbortAtRenderYield ==
    [][\A p \in Passes :
          (pass[p].pc = "render" /\ aborted[p] /\ Steps(p)) =>
              /\ pass'[p].outcome = "Aborted"
              /\ pass'[p].out = pass[p].out]_vars

-----------------------------------------------------------------------------
(* C21 - C26 *)

\* The rearrangements of a list.
Rearrangements(files) ==
    {[k \in 1..Len(files) |-> files[f[k]]] : f \in Permutations(1..Len(files))}

\* C21: for every style, the structured-data style included, the output
\* does not depend on the insertion order: every rearrangement of a
\* conflict-free list gives the text the pass has published.
C21_OrderIndependentOfInsertion ==
    \A p \in Passes :
        (Published(p) /\ ConflictFree(pass[p].files, pass[p].cfg)) =>
            \A G \in Rearrangements(pass[p].files) :
                buildTreeAsync(G, pass[p].cfg, pass[p].root, variant).treeString
                    = pass[p].out


\* C22: cancellation is idempotent: when no pass is live (every started pass
\* has finished or has been cancelled) a call of the stop operation changes
\* nothing: text, statistics, isGenerating and token stay as they were.
C22_StopIsIdempotent == (Live = {}) => ~ENABLED <<stopHandler>>_vars


\* The line of the lines L that was emitted for the node at the given path.
LineAt(L, path) == L[CHOOSE i \in 1..Len(L) : L[i].path = path]

\* What the ancestors of the node at path contribute to its prefix, from its
\* k-th ancestor down: the blank continuation below a last child, the
\* vertical one below any other.
RECURSIVE AncestorPrefix(_, _, _, _)
AncestorPrefix(style, L, path, k) ==
    IF k >= Len(path) THEN ""
    ELSE (IF LineAt(L, SubSeq(path, 1, k)).isLast THEN style.space ELSE style.vertical)
         \o AncestorPrefix(style, L, path, k + 1)

\* The size stored in the file node at the given path.
SizeAt(tree, path) ==
    (CHOOSE n \in NodesOf(tree, <<>>) : n.path = path).size

\* The text of line l of the lines L of record pr, composed part by part.
ComposedLine(pr, L, l) ==
    LET style == StyleOf(variant, pr.cfg.style)
        pre == AncestorPrefix(style, L, l.path, 1)
               \o (IF l.isLast THEN style.lastBranch ELSE style.branch)
        indent == Repeat("  ", Len(l.path))
        icon == IF pr.cfg.style # "emoji" THEN ""
                ELSE IF l.isDir THEN "{folder} " ELSE "{file} "
        slash == IF l.isDir /\ pr.cfg.trailingSlash THEN "/" ELSE ""
        size == IF ~l.isDir /\ pr.cfg.showSizes
                THEN " (" \o formatSize(SizeAt(pr.b.tree, l.path)) \o ")" ELSE ""
    IN (IF pr.cfg.style = "indent" THEN indent ELSE pre)
       \o icon \o NameOf(l.path) \o slash \o size \o "\n"

\* C23: every node line of a published text is, in this order, the prefix
\* accumulated from its ancestors with its own connector, the icon (emoji
\* style only), the segment name, '/' only for a directory under
\* trailingSlash, and the size suffix only for a file under showSizes.
C23_LineComposition ==
    \A p \in Passes : PublishedText(p) =>
        LET L == TextLines(pass[p])
        IN /\ ShowsLines(p, L)
           /\ \A i \in 1..Len(L) : L[i].text = ComposedLine(pass[p], L, L[i])

\* A published emoji text with sizes and slashes that has a directory line
\* and, two levels down, a file line.
C23_Witness ==
    \E p \in Passes :
        /\ PublishedText(p)
        /\ pass[p].cfg.style = "emoji"
        /\ pass[p].cfg.showSizes /\ pass[p].cfg.trailingSlash
        /\ \E i, j \in 1..Len(TextLines(pass[p])) :
               /\ TextLines(pass[p])[i].isDir
               /\ ~TextLines(pass[p])[j].isDir
               /\ Len(TextLines(pass[p])[j].path) >= 2
               /\ ~TextLines(pass[p])[i].isLast


\* What the renderer of variant v returns for the inputs of record pr.
TextOf(pr, v) == buildTreeAsync(pr.files, pr.cfg, pr.root, v).treeString

\* The text of line l in indent style: 2 * (d + 1) spaces at render depth
\* d, then the name and its suffix, with no connector.
IndentedLine(pr, l) ==
    Repeat(" ", 2 * (l.depth + 1))
    \o NameOf(l.path)
    \o (IF l.isDir /\ pr.cfg.trailingSlash THEN "/" ELSE "")
    \o (IF ~l.isDir /\ pr.cfg.showSizes
        THEN " (" \o formatSize(SizeAt(pr.b.tree, l.path)) \o ")" ELSE "")
    \o "\n"

\* C24: the renderers of src/src/App.jsx and of src/unnamed/part_000 give
\* the same text for every hierarchy and configuration; in indent style a
\* node line at render depth d starts with exactly 2 * (d + 1) spaces and
\* has no connector, last child or not.
C24_VariantsAgree ==
    \A p \in Passes : Published(p) =>
        /\ TextOf(pass[p], "App") = pass[p].out
        /\ TextOf(pass[p], "part_000") = pass[p].out
        /\ (pass[p].cfg.style = "indent") =>
               \A i \in 1..Len(TextLines(pass[p])) :
                   TextLines(pass[p])[i].text
                       = IndentedLine(pass[p], TextLines(pass[p])[i])

\* A published indent text with a line at render depth 2 and, above it, a
\* child that is not the last of its directory.
C24_Witness ==
    \E p \in Passes :
        /\ Published(p)
        /\ pass[p].cfg.style = "indent"
        /\ \E i, j \in 1..Len(TextLines(pass[p])) :
               /\ TextLines(pass[p])[i].depth = 2
               /\ TextLines(pass[p])[j].depth = 0
               /\ ~TextLines(pass[p])[j].isLast
               /\ TextLines(pass[p])[j].isDir


ConnectorStyles == {"classic", "ascii", "emoji"}

\* Line i is the last line emitted for a direct child of its directory.
EmittedLast(L, i) ==
    \A j \in 1..Len(L) : (j > i) => Parent(L[j].path) # Parent(L[i].path)

\* C25: in the connector styles, for every directory and every showFiles,
\* the last line emitted for a direct child has the last-child connector and
\* the earlier ones the branch connector, and the lines below the last
\* emitted child carry the blank continuation at that level, those below
\* another child the vertical one.
C25_LastEmittedChildConnector ==
    \A p \in Passes :
        (PublishedText(p) /\ pass[p].cfg.style \in ConnectorStyles) =>
            LET L == TextLines(pass[p])
            IN \A i \in 1..Len(L) :
                   /\ L[i].isLast <=> EmittedLast(L, i)
                   /\ L[i].text = ComposedLine(pass[p], L, L[i])


\* C26: in every reachable state isGenerating is true exactly when a pass
\* is started, not terminated and not aborted: the flag is not left true
\* after the last pass has completed, failed or been stopped, and is not
\* false while an uncancelled pass runs.
C26_FlagTracksLivePass == isGenerating <=> (Live # {})

\* After a failed pass, a second pass has been stopped and is still in
\* flight with the flag down; the first pass left the flag down as well.
C26_Witness ==
    /\ nPasses = 2
    /\ pass[1].outcome = "failed"
    /\ aborted[2] /\ pass[2].pc \in {"build", "render"}
    /\ ~isGenerating
    /\ abortControllerRef = 2

=============================================================================
